---- MODULE Spec2Model ----
(***************************************************************************)
(* storedWritable (src/src/index.ts): a Svelte writable whose value is     *)
(* mirrored into localStorage as JSON text and restored, through a zod     *)
(* schema, when the writable is constructed.                               *)
(*                                                                         *)
(* JavaScript values are tagged records, texts are sequences of one-       *)
(* character strings, and JSON.stringify, JSON.parse, Storage.setItem's    *)
(* string conversion and schema.parse are computed on them, so that what   *)
(* is written to the store and what is read back are different things.     *)
(***************************************************************************)
EXTENDS Integers, Sequences, FiniteSets, TLC

\* ------------------------------------------------------------------ bounds
\* Largest number a cell value holds (update's increment stops there).
MaxNum == 2
\* Storage events a browsing context may have queued, not yet dispatched.
MaxPending == 1
\* Subscribers a writable may have at once.
MaxSubscribers == 1
\* Notifications of one set or update call, counted from the first, at which
\* a subscriber's callback may itself call set or update.
MaxReactions == 1

\* ------------------------------------------------------- JavaScript values
Undefined == [t |-> "undefined"]
Null == [t |-> "null"]
Bool(b) == [t |-> "boolean", b |-> b]
Num(n) == [t |-> "number", n |-> n]
Str(s) == [t |-> "string", s |-> s]
Obj(o) == [t |-> "object", o |-> o]

\* Property names of the README's example object, as texts.
Foo == <<"f", "o", "o">>
Bar == <<"b", "a", "r">>
\* The order in which an object's own properties are enumerated.
KeyOrder == <<Foo, Bar>>
EmptyProps == [k \in {} |-> Null]
FooBar(s, n) == Obj([k \in {Foo, Bar} |-> IF k = Foo THEN Str(s) ELSE Num(n)])

\* --------------------------------------------------------------- text
Digits == <<"0", "1", "2", "3", "4", "5", "6", "7", "8", "9">>
DigitChars == {Digits[d] : d \in 1..10}
IsDigit(c) == c \in DigitChars
DigitVal(c) == (CHOOSE d \in 1..10 : Digits[d] = c) - 1
Quote == "\""

\* Number::toString for the non-negative integers.
RECURSIVE NumberToString(_)
NumberToString(n) ==
    IF n < 10 THEN <<Digits[n + 1]>>
    ELSE NumberToString(n \div 10) \o <<Digits[(n % 10) + 1]>>

\* ----------------------------------------------------------- JSON.stringify
\* SerializeJSONProperty: undefined has no JSON text (the result is the
\* JavaScript value undefined); an object's properties are written in
\* enumeration order, those holding undefined left out.
RECURSIVE SerializeJSONProperty(_), SerializeJSONObject(_, _, _)
SerializeJSONProperty(v) ==
    CASE v.t = "undefined" -> Undefined
      [] v.t = "null" -> Str(<<"n", "u", "l", "l">>)
      [] v.t = "boolean" ->
            Str(IF v.b THEN <<"t", "r", "u", "e">> ELSE <<"f", "a", "l", "s", "e">>)
      [] v.t = "number" -> Str(NumberToString(v.n))
      [] v.t = "string" -> Str(<<Quote>> \o v.s \o <<Quote>>)
      [] v.t = "object" -> Str(<<"{">> \o SerializeJSONObject(v.o, 1, <<>>) \o <<"}">>)

SerializeJSONObject(o, i, acc) ==
    IF i > Len(KeyOrder) THEN acc
    ELSE LET k == KeyOrder[i]
             p == IF k \in DOMAIN o THEN SerializeJSONProperty(o[k]) ELSE Undefined
         IN IF p.t = "undefined" THEN SerializeJSONObject(o, i + 1, acc)
            ELSE SerializeJSONObject(o, i + 1,
                    acc \o (IF acc = <<>> THEN <<>> ELSE <<",">>)
                        \o <<Quote>> \o k \o <<Quote, ":">> \o p.s)

JSONstringify(v) == SerializeJSONProperty(v)

\* --------------------------------------------------------------- JSON.parse
SyntaxError == [ok |-> FALSE, error |-> "SyntaxError"]
Parsed(v, i) == [ok |-> TRUE, v |-> v, i |-> i]

RECURSIVE SkipWs(_, _)
SkipWs(s, i) == IF i <= Len(s) /\ s[i] = " " THEN SkipWs(s, i + 1) ELSE i

Lit(s, i, w) == i + Len(w) - 1 <= Len(s) /\ SubSeq(s, i, i + Len(w) - 1) = w

RECURSIVE ScanDigits(_, _, _)
ScanDigits(s, i, acc) ==
    IF i <= Len(s) /\ IsDigit(s[i])
    THEN ScanDigits(s, i + 1, acc * 10 + DigitVal(s[i]))
    ELSE Parsed(Num(acc), i)

\* JSON number, integer part only: 0, or a digit 1-9 followed by digits.
ParseNumber(s, i) == IF s[i] = "0" THEN Parsed(Num(0), i + 1) ELSE ScanDigits(s, i, 0)

\* Index of the quote closing the string opened before i; 0 when there is none.
RECURSIVE ClosingQuote(_, _)
ClosingQuote(s, i) ==
    IF i > Len(s) THEN 0
    ELSE IF s[i] = Quote THEN i
    ELSE ClosingQuote(s, i + 1)

ParseString(s, i) ==
    LET j == ClosingQuote(s, i + 1)
    IN IF j = 0 THEN SyntaxError ELSE Parsed(Str(SubSeq(s, i + 1, j - 1)), j + 1)

RECURSIVE ParseValue(_, _), ParseMembers(_, _, _)
ParseValue(s, i0) ==
    LET i == SkipWs(s, i0)
    IN IF i > Len(s) THEN SyntaxError
       ELSE IF Lit(s, i, <<"n", "u", "l", "l">>) THEN Parsed(Null, i + 4)
       ELSE IF Lit(s, i, <<"t", "r", "u", "e">>) THEN Parsed(Bool(TRUE), i + 4)
       ELSE IF Lit(s, i, <<"f", "a", "l", "s", "e">>) THEN Parsed(Bool(FALSE), i + 5)
       ELSE IF IsDigit(s[i]) THEN ParseNumber(s, i)
       ELSE IF s[i] = Quote THEN ParseString(s, i)
       ELSE IF s[i] = "{"
            THEN LET j == SkipWs(s, i + 1)
                 IN IF j <= Len(s) /\ s[j] = "}" THEN Parsed(Obj(EmptyProps), j + 1)
                    ELSE ParseMembers(s, j, EmptyProps)
       ELSE SyntaxError

\* "name" : value, then a comma and more members, or the closing brace.
ParseMembers(s, i0, acc) ==
    LET i == SkipWs(s, i0)
    IN IF i > Len(s) \/ s[i] # Quote THEN SyntaxError
       ELSE LET name == ParseString(s, i)
            IN IF ~name.ok THEN SyntaxError
               ELSE LET c == SkipWs(s, name.i)
                    IN IF c > Len(s) \/ s[c] # ":" THEN SyntaxError
                       ELSE LET val == ParseValue(s, c + 1)
                            IN IF ~val.ok THEN SyntaxError
                               ELSE LET e == SkipWs(s, val.i)
                                        props == [k \in DOMAIN acc \cup {name.v.s} |->
                                                    IF k = name.v.s THEN val.v ELSE acc[k]]
                                    IN IF e > Len(s) THEN SyntaxError
                                       ELSE IF s[e] = "," THEN ParseMembers(s, e + 1, props)
                                       ELSE IF s[e] = "}" THEN Parsed(Obj(props), e + 1)
                                       ELSE SyntaxError

\* The whole text must be one JSON value, surrounded by white space at most.
JSONparse(text) ==
    LET r == ParseValue(text, 1)
    IN IF r.ok /\ SkipWs(text, r.i) > Len(text)
       THEN [ok |-> TRUE, v |-> r.v]
       ELSE SyntaxError

\* ------------------------------------------------------------- zod schemas
\* The schemas a writable is constructed with: the README's object schema,
\* and one whose type admits undefined and carries a refinement (min) that
\* the type does not show.
SchemaFooBar == "z.object({foo: z.string(), bar: z.number()})"
SchemaOptionalMin1 == "z.number().min(1).optional()"
Schemas == {SchemaFooBar, SchemaOptionalMin1}

ZodError == [ok |-> FALSE, error |-> "ZodError"]
Valid(v) == [ok |-> TRUE, v |-> v]

HasProp(data, k, type) == k \in DOMAIN data.o /\ data.o[k].t = type

\* schema.parse(data): the parsed value, or a ZodError. An object schema
\* returns its own keys only (unknown keys are stripped).
SchemaParse(schema, data) ==
    CASE schema = SchemaFooBar ->
            IF data.t = "object" /\ HasProp(data, Foo, "string") /\ HasProp(data, Bar, "number")
            THEN Valid(Obj([k \in {Foo, Bar} |-> data.o[k]]))
            ELSE ZodError
      [] schema = SchemaOptionalMin1 ->
            IF data.t = "undefined" \/ (data.t = "number" /\ data.n >= 1)
            THEN Valid(data)
            ELSE ZodError

\* z.infer<typeof schema>: the values the compiler lets a caller pass as
\* initialValue, to set, or return from an updater (those within the bounds).
InferFooBar == {FooBar(s, n) : s \in {<<"a">>, <<"b">>}, n \in 1..MaxNum}
InferOptionalMin1 == {Undefined} \cup {Num(n) : n \in 0..MaxNum}
Infer(schema) ==
    CASE schema = SchemaFooBar -> InferFooBar
      [] schema = SchemaOptionalMin1 -> InferOptionalMin1

\* The initialValue arguments tried.
InitialValues(schema) ==
    CASE schema = SchemaFooBar -> {FooBar(<<"a">>, 1), FooBar(<<"b">>, 1)}
      [] schema = SchemaOptionalMin1 -> {Num(0), Num(1)}

Values == UNION {Infer(schema) : schema \in Schemas}

\* ------------------------------------------------------------ svelte/store
\* safe_not_equal(a, b): objects always count as changed.
SafeNotEqual(a, b) == a # b \/ a.t = "object"

\* Updater callbacks handed to update(): the README's increment (which
\* leaves undefined alone), and one that returns a fixed value of the type.
Updaters == {"increment", "reset"}
Apply(f, v) ==
    CASE f = "increment" ->
            (CASE v.t = "number" -> Num(v.n + 1)
               [] v.t = "object" -> Obj([v.o EXCEPT ![Bar] = Num(v.o[Bar].n + 1)])
               [] OTHER -> v)
      [] f = "reset" ->
            (CASE v.t = "number" -> Num(0)
               [] v.t = "object" -> FooBar(<<"a">>, 1)
               [] OTHER -> Undefined)

\* ------------------------------------------------------------ localStorage
\* The truthiness test of `stored ? ... : initialValue`.
Truthy(v) ==
    CASE v.t = "string" -> v.s # <<>>
      [] v.t = "number" -> v.n # 0
      [] v.t = "boolean" -> v.b
      [] v.t = "object" -> TRUE
      [] OTHER -> FALSE

\* Storage.setItem takes a DOMString: a value that is no string is
\* converted to one (ToString), undefined to the text "undefined".
ToDOMString(v) ==
    CASE v.t = "string" -> v.s
      [] v.t = "undefined" -> <<"u", "n", "d", "e", "f", "i", "n", "e", "d">>
      [] v.t = "null" -> <<"n", "u", "l", "l">>
      [] v.t = "boolean" -> IF v.b THEN <<"t", "r", "u", "e">> ELSE <<"f", "a", "l", "s", "e">>
      [] v.t = "number" -> NumberToString(v.n)
      [] v.t = "object" ->
            <<"[", "o", "b", "j", "e", "c", "t", " ", "O", "b", "j", "e", "c", "t", "]">>

\* The text handed to setItem: JSON.stringify(get(w)).
StoredTextUnserialized(value) == ToDOMString(value)
StoredText(value) == ToDOMString(JSONstringify(value))

\* ------------------------------------------------------------------ state
\* The browsing context (tab) whose writable is followed; Foreign stands for every
\* other writer of the origin's localStorage: other tabs running the same
\* application, and other code.
Contexts == {"tab"}
Foreign == "elsewhere"
\* The keys of the store: the one the application gives its writable (the
\* README's), and one that another mechanism of the application uses.
WritableKey == "my-writable-key"
OtherKey == "other-key"
Keys == {WritableKey, OtherKey}

\* Texts another writer may leave under the writable's key: what another
\* tab's writable stores for a value of the number schema (which is no value
\* of the object schema), an unfinished object, and the empty text.
OtherTabValue == Num(1)
OtherTabTexts == { StoredText(OtherTabValue), <<"{">>, <<>> }
\* What the other mechanism keeps under its own key.
OtherKeyTexts == { <<"1">> }
ForeignTexts(k) == IF k = WritableKey THEN OtherTabTexts ELSE OtherKeyTexts

VARIABLES
    localStorage,   \* key -> the item's text as a string value, or null
    cell,           \* context -> the stored writable that context holds
    pending,        \* context -> storage events queued for that context
    last,           \* the call that ran last: arguments, outcome, what it called
    queueLeft       \* context -> svelte's subscriber_queue holds entries that
                    \* an exception in a callback left in it

vars == <<localStorage, cell, pending, last, queueLeft>>

NoCell == [made |-> FALSE]

StorageEvent(k, new) == [key |-> k, newValue |-> new]

\* The item at k becomes `new` (null: removed) by a call made in context c.
\* Every other context gets a storage event when the item changed.
Fires(k, new) == localStorage[k] # new
RoomFor(c, k, new) ==
    Fires(k, new) => \A d \in Contexts \ {c} : Len(pending[d]) < MaxPending
StoredEverywhere(k, new) == [j \in Keys |-> new]
Stored(k, new) == [localStorage EXCEPT ![k] = new]
Queued(c, k, new) ==
    IF Fires(k, new)
    THEN [d \in Contexts |->
            IF d = c THEN pending[d]
            ELSE Append(pending[d], StorageEvent(k, new))]
    ELSE pending

GetItemCall(k) == [call |-> "getItem", key |-> k]
SetItemCall(k, text) == [call |-> "setItem", key |-> k, value |-> text]
RemoveItemCall(k) == [call |-> "removeItem", key |-> k]
SubscriberCall(v) == [call |-> "subscriber", value |-> v]

Init ==
    /\ localStorage = [k \in Keys |-> Null]
    /\ cell = [c \in Contexts |-> NoCell]
    /\ pending = [c \in Contexts |-> <<>>]
    /\ last = [op |-> "none", ctx |-> Foreign, log |-> <<>>]
    /\ queueLeft = [c \in Contexts |-> FALSE]

\* ------------------------------------------------------- storedWritable()
\* const stored = !disableLocalStorage ? localStorage.getItem(key) : null
StoredAt(key, disableLocalStorage) ==
    IF ~disableLocalStorage THEN localStorage[key] ELSE Null

\* Slips of the expression below: a thrown error caught and replaced by
\* initialValue; no fallback to initialValue; JSON.parse without schema.parse.
InitialOfCaught(stored, schema, initialValue) ==
    LET decoded == IF Truthy(stored) THEN JSONparse(stored.s) ELSE SyntaxError
        parsed == IF decoded.ok THEN SchemaParse(schema, decoded.v) ELSE decoded
    IN IF parsed.ok THEN parsed ELSE Valid(initialValue)

InitialOfNoFallback(stored, schema, initialValue) ==
    LET decoded == IF stored.t = "string" THEN JSONparse(stored.s) ELSE Valid(stored)
    IN IF decoded.ok THEN SchemaParse(schema, decoded.v) ELSE decoded

InitialOfUnvalidated(stored, schema, initialValue) ==
    IF Truthy(stored) THEN JSONparse(stored.s) ELSE Valid(initialValue)

\* stored ? schema.parse(JSON.parse(stored)) : initialValue
\* (either call may throw, and the exception leaves storedWritable).
InitialOf(stored, schema, initialValue) ==
    IF Truthy(stored)
    THEN LET decoded == JSONparse(stored.s)
         IN IF decoded.ok THEN SchemaParse(schema, decoded.v) ELSE decoded
    ELSE Valid(initialValue)

\* The application declares one schema for its key: a writable that replaces
\* the context's writable is constructed with the schema of the one it
\* replaces. A call that throws leaves the context with what it held. (A
\* slip: an initialValue that was fallen back to is stored at once.)
storedWritablePersisting(c, key, schema, initialValue, disableLocalStorage) ==
    LET stored == StoredAt(key, disableLocalStorage)
        w == InitialOf(stored, schema, initialValue)
    IN /\ cell[c].made => schema = cell[c].schema
       /\ cell' = IF w.ok
                  THEN [cell EXCEPT ![c] =
                          [made |-> TRUE, key |-> key, schema |-> schema,
                           initialValue |-> initialValue,
                           disableLocalStorage |-> disableLocalStorage,
                           value |-> w.v, subscribers |-> 0]]
                  ELSE cell
       /\ last' = [op |-> "storedWritable", ctx |-> c, key |-> key, schema |-> schema,
                   initialValue |-> initialValue,
                   disableLocalStorage |-> disableLocalStorage,
                   outcome |-> IF w.ok THEN "returned" ELSE w.error,
                   log |-> IF ~disableLocalStorage THEN <<GetItemCall(key)>> ELSE <<>>]
       /\ localStorage' = IF w.ok /\ ~disableLocalStorage /\ ~Truthy(stored)
                          THEN Stored(key, Str(StoredText(initialValue)))
                          ELSE localStorage
       /\ UNCHANGED <<pending, queueLeft>>

storedWritable(c, key, schema, initialValue, disableLocalStorage) ==
    LET stored == StoredAt(key, disableLocalStorage)
        w == InitialOf(stored, schema, initialValue)
    IN /\ cell[c].made => schema = cell[c].schema
       /\ cell' = IF w.ok
                  THEN [cell EXCEPT ![c] =
                          [made |-> TRUE, key |-> key, schema |-> schema,
                           initialValue |-> initialValue,
                           disableLocalStorage |-> disableLocalStorage,
                           value |-> w.v, subscribers |-> 0]]
                  ELSE cell
       /\ last' = [op |-> "storedWritable", ctx |-> c, key |-> key, schema |-> schema,
                   initialValue |-> initialValue,
                   disableLocalStorage |-> disableLocalStorage,
                   outcome |-> IF w.ok THEN "returned" ELSE w.error,
                   log |-> IF ~disableLocalStorage THEN <<GetItemCall(key)>> ELSE <<>>]
       /\ UNCHANGED <<localStorage, pending, queueLeft>>

\* ------------------------------------------------------------ set, update
\* get(w) after w.set / w.update: the value the writable holds now (a slip:
\* the value it held when the call began).
ReadBackStale(held, now) == held
ReadBack(held, now) == now

\* w.update(fn) is set(fn(value)) (a slip: fn applied a second time).
UpdatedTwice(f, value) == Apply(f, Apply(f, value))
Updated(f, value) == Apply(f, value)

\* What a subscriber's callback does when it is called: nothing that touches
\* the writable, or a call of the writable's set or update.
Passive == [call |-> "none"]
CallsSet(v) == [call |-> "set", arg |-> v]
CallsUpdate(f) == [call |-> "update", arg |-> f]
\* The callbacks tried: one that sets the writable back to its initialValue,
\* and one for each updater.
Reactions(w) ==
    {Passive} \cup {CallsSet(w.initialValue)} \cup {CallsUpdate(f) : f \in Updaters}
\* What the callbacks do at the first notifications of one call, in the order
\* of the notifications; the callbacks notified after these do nothing (so
\* the last one listed does something). No callback runs when there is no
\* subscriber, or when the queue is not run.
Plans(w, left) ==
    IF w.subscribers = 0 \/ left THEN {<<>>}
    ELSE {plan \in UNION {[1..n -> Reactions(w)] : n \in 0..MaxReactions} :
            plan # <<>> => plan[Len(plan)] # Passive}
NoReaction == <<>>
\* Which of the setItem calls of one call raises (the store is full or
\* unavailable): none, or the n-th issued. There is one for the call and one
\* for each call a callback makes.
NoFailure == 0
Failing(w, plan) ==
    IF w.disableLocalStorage THEN {NoFailure}
    ELSE 0..(Len(SelectSeq(plan, LAMBDA r : r # Passive)) + 1)
QuotaExceededError == "QuotaExceededError"

\* The value a callback's call gives the writable.
Given(r, value) == IF r.call = "set" THEN r.arg ELSE Updated(r.arg, value)

\* The course of one set or update call: the writable's value, svelte's
\* subscriber_queue (the values the subscribers are still to be called with),
\* the calls made so far, the value held at each setItem call, the item at the
\* key and the storage events fired, whether a setItem call raised, and the
\* calls the callbacks made.
Begin(w, left) ==
    [value |-> w.value, queue |-> <<>>, log |-> <<>>, held |-> <<>>,
     item |-> localStorage[w.key], events |-> <<>>, raised |-> FALSE,
     left |-> left, inner |-> 0, typed |-> TRUE]

\* svelte's set(new_value): when the value counts as changed it is replaced
\* and every subscriber is queued with it.
SvelteSet(m, w, v) ==
    IF SafeNotEqual(m.value, v)
    THEN [m EXCEPT !.value = v, !.queue = @ \o [i \in 1..w.subscribers |-> v]]
    ELSE m

\* if (!disableLocalStorage) localStorage.setItem(key, JSON.stringify(get(w)))
\* where began is the value held when the set or update call began. A call
\* that raises leaves the item as it was. (A slip: a call that raises puts
\* back the value held when the set or update call began.)
SetItemRollingBack(m, w, began, fail) ==
    IF w.disableLocalStorage THEN m
    ELSE LET text == StoredText(ReadBack(began, m.value))
             issued == [m EXCEPT !.log = Append(@, SetItemCall(w.key, text)),
                                 !.held = Append(@, m.value)]
         IN IF Len(issued.held) = fail
            THEN [issued EXCEPT !.raised = TRUE, !.value = began]
            ELSE [issued EXCEPT
                    !.item = Str(text),
                    !.events = IF m.item # Str(text)
                               THEN Append(@, StorageEvent(w.key, Str(text)))
                               ELSE @]

SetItem(m, w, began, fail) ==
    IF w.disableLocalStorage THEN m
    ELSE LET text == StoredText(ReadBack(began, m.value))
             issued == [m EXCEPT !.log = Append(@, SetItemCall(w.key, text)),
                                 !.held = Append(@, m.value)]
         IN IF Len(issued.held) = fail
            THEN [issued EXCEPT !.raised = TRUE]
            ELSE [issued EXCEPT
                    !.item = Str(text),
                    !.events = IF m.item # Str(text)
                               THEN Append(@, StorageEvent(w.key, Str(text)))
                               ELSE @]

\* The stored writable's set / update called by a callback: w.set or
\* w.update, which queues the subscribers behind the ones being run, and then
\* the store write.
CalledBack(m, w, r, fail) ==
    LET v == Given(r, m.value)
        entered == [m EXCEPT !.inner = @ + 1,
                             !.typed = @ /\ v \in Infer(w.schema)]
    IN SetItem(SvelteSet(entered, w, v), w, m.value, fail)

\* svelte runs the subscriber_queue from its head: each entry's callback is
\* called with the value queued for it, and what it queues is run in turn. An
\* exception leaves the loop (and the call) at once.
RECURSIVE RunQueue(_, _, _, _, _)
RunQueue(m, w, plan, fail, i) ==
    IF m.raised \/ i > Len(m.queue) THEN m
    ELSE LET called == [m EXCEPT !.log = Append(@, SubscriberCall(m.queue[i]))]
             r == IF i <= Len(plan) THEN plan[i] ELSE Passive
             after == IF r = Passive THEN called ELSE CalledBack(called, w, r, fail)
         IN RunQueue(after, w, plan, fail, i + 1)

\* Every storage event of the call reaches every other context.
RoomForAll(c, events) ==
    \A d \in Contexts \ {c} : Len(pending[d]) + Len(events) <= MaxPending
QueuedAll(c, events) ==
    [d \in Contexts |-> IF d = c THEN pending[d] ELSE pending[d] \o events]

\* set / update of the stored writable, called from outside the callbacks:
\* w.set(v) replaces the value when it counts as changed and queues the
\* subscribers; the queue is run unless it held entries already (then the
\* new entries wait behind them). Then, unless localStorage is disabled or an
\* exception left w.set, the cell's value is read back with get(w),
\* stringified and stored. The queue is emptied when its last entry has run:
\* an exception in the loop leaves its entries. (A slip: the two statements
\* in the other order.)
CourseWriteFirst(w, left, v, plan, fail) ==
    LET written == SetItem(Begin(w, left), w, w.value, fail)
        queued == SvelteSet(written, w, v)
        run == IF left THEN queued ELSE RunQueue(queued, w, plan, fail, 1)
    IN IF written.raised THEN written
       ELSE IF run.raised THEN [run EXCEPT !.left = TRUE] ELSE run

Course(w, left, v, plan, fail) ==
    LET queued == SvelteSet(Begin(w, left), w, v)
        run == IF left THEN queued ELSE RunQueue(queued, w, plan, fail, 1)
    IN IF run.raised
       THEN [run EXCEPT !.left = TRUE]
       ELSE SetItem(run, w, w.value, fail)

WritableSet(c, v, op, arg, plan, fail) ==
    \E done \in {Course(cell[c], queueLeft[c], v, plan, fail)} :
       /\ done.typed
       /\ Len(plan) <= Len(done.queue)
       /\ fail # NoFailure => done.raised
       /\ RoomForAll(c, done.events)
       /\ cell' = [cell EXCEPT ![c].value = done.value]
       /\ localStorage' = [localStorage EXCEPT ![cell[c].key] = done.item]
       /\ pending' = QueuedAll(c, done.events)
       /\ queueLeft' = [queueLeft EXCEPT ![c] = done.left]
       /\ last' = [op |-> op, ctx |-> c, arg |-> arg,
                   outcome |-> IF done.raised THEN QuotaExceededError ELSE "returned",
                   log |-> done.log, held |-> done.held,
                   inner |-> done.inner]

\* The callbacks of the subscribers leave the writable alone, and the store
\* takes every write.
set(c, v) ==
    /\ cell[c].made
    /\ v \in Infer(cell[c].schema)
    /\ WritableSet(c, v, "set", v, NoReaction, NoFailure)

update(c, f) ==
    /\ cell[c].made
    /\ Apply(f, cell[c].value) \in Infer(cell[c].schema)
    /\ WritableSet(c, Updated(f, cell[c].value), "update", f, NoReaction, NoFailure)

\* The same calls, with callbacks that call set or update themselves, and a
\* store that may refuse a write.
setCalledBack(c, v) ==
    /\ cell[c].made
    /\ v \in Infer(cell[c].schema)
    /\ \E plan \in Plans(cell[c], queueLeft[c]) :
          \E fail \in Failing(cell[c], plan) :
             WritableSet(c, v, "set", v, plan, fail)

updateCalledBack(c, f) ==
    /\ cell[c].made
    /\ Apply(f, cell[c].value) \in Infer(cell[c].schema)
    /\ \E plan \in Plans(cell[c], queueLeft[c]) :
          \E fail \in Failing(cell[c], plan) :
             WritableSet(c, Updated(f, cell[c].value), "update", f, plan, fail)

\* ------------------------------------------------------------------ clear
\* localStorage.removeItem(key), and nothing else.
clear(c) ==
    LET w == cell[c]
    IN /\ w.made
       /\ RoomFor(c, w.key, Null)
       /\ localStorage' = Stored(w.key, Null)
       /\ pending' = Queued(c, w.key, Null)
       /\ last' = [op |-> "clear", ctx |-> c, outcome |-> "returned",
                   log |-> <<RemoveItemCall(w.key)>>]
       /\ UNCHANGED <<cell, queueLeft>>

\* -------------------------------------------------------------- subscribe
\* w.subscribe(run): run is called at once with the current value.
subscribe(c) ==
    /\ cell[c].made
    /\ cell[c].subscribers < MaxSubscribers
    /\ cell' = [cell EXCEPT ![c].subscribers = @ + 1]
    /\ last' = [op |-> "subscribe", ctx |-> c, outcome |-> "returned",
                log |-> <<SubscriberCall(cell[c].value)>>]
    /\ UNCHANGED <<localStorage, pending, queueLeft>>

unsubscribe(c) ==
    /\ cell[c].made
    /\ cell[c].subscribers > 0
    /\ cell' = [cell EXCEPT ![c].subscribers = @ - 1]
    /\ last' = [op |-> "unsubscribe", ctx |-> c, outcome |-> "returned", log |-> <<>>]
    /\ UNCHANGED <<localStorage, pending, queueLeft>>

\* ----------------------------------------------------------- storage event
\* The context's next storage event is dispatched. storedWritable adds no
\* listener for it, so no code of the writable runs.
DispatchStorageEvent(c) ==
    /\ pending[c] # <<>>
    /\ pending' = [pending EXCEPT ![c] = Tail(@)]
    /\ last' = [op |-> "storage", ctx |-> c, event |-> Head(pending[c]),
                outcome |-> "returned", log |-> <<>>]
    /\ UNCHANGED <<localStorage, cell, queueLeft>>

\* ---------------------------------------------------------- other writers
ForeignSetItem(k, text) ==
    /\ RoomFor(Foreign, k, Str(text))
    /\ localStorage' = Stored(k, Str(text))
    /\ pending' = Queued(Foreign, k, Str(text))
    /\ last' = [op |-> "foreignSetItem", ctx |-> Foreign, log |-> <<>>]
    /\ UNCHANGED <<cell, queueLeft>>

ForeignRemoveItem(k) ==
    /\ localStorage[k] # Null
    /\ RoomFor(Foreign, k, Null)
    /\ localStorage' = Stored(k, Null)
    /\ pending' = Queued(Foreign, k, Null)
    /\ last' = [op |-> "foreignRemoveItem", ctx |-> Foreign, log |-> <<>>]
    /\ UNCHANGED <<cell, queueLeft>>

Next ==
    \/ \E c \in Contexts, schema \in Schemas, d \in BOOLEAN :
          \E initialValue \in InitialValues(schema) :
             storedWritable(c, WritableKey, schema, initialValue, d)
    \/ \E c \in Contexts, v \in Values : set(c, v)
    \/ \E c \in Contexts, f \in Updaters : update(c, f)
    \/ \E c \in Contexts : clear(c)
    \/ \E c \in Contexts : subscribe(c)
    \/ \E c \in Contexts : unsubscribe(c)
    \/ \E c \in Contexts : DispatchStorageEvent(c)
    \/ \E k \in Keys : \E text \in ForeignTexts(k) : ForeignSetItem(k, text)
    \/ \E k \in Keys : ForeignRemoveItem(k)

Spec == Init /\ [][Next]_vars

\* The writable with subscribers whose callbacks call set and update, on a
\* store that may refuse a write; no other writer.
NextCalledBack ==
    \/ \E c \in Contexts, schema \in Schemas, d \in BOOLEAN :
          \E initialValue \in InitialValues(schema) :
             storedWritable(c, WritableKey, schema, initialValue, d)
    \/ \E c \in Contexts, v \in Values : setCalledBack(c, v)
    \/ \E c \in Contexts, f \in Updaters : updateCalledBack(c, f)
    \/ \E c \in Contexts : clear(c)
    \/ \E c \in Contexts : subscribe(c)
    \/ \E c \in Contexts : unsubscribe(c)

SpecCalledBack == Init /\ [][NextCalledBack]_vars

\* ================================================================ claims
\* The writable the last call ran on.
W == cell[last.ctx]

\* v passes the schema unchanged.
Conforms(schema, v) == SchemaParse(schema, v) = Valid(v)

\* v is built from null, booleans, finite numbers, strings and plain objects
\* of such values only: the values that have a JSON text.
RECURSIVE JSONRepresentable(_)
JSONRepresentable(v) ==
    \/ v.t \in {"null", "boolean", "number", "string"}
    \/ v.t = "object" /\ \A k \in DOMAIN v.o : JSONRepresentable(v.o[k])

\* The item decoded and validated: the parsed value, or the error.
Restored(item, schema) ==
    LET decoded == JSONparse(item.s)
    IN IF decoded.ok THEN SchemaParse(schema, decoded.v) ELSE decoded

StoreCalls == {"getItem", "setItem", "removeItem"}
CallsStore(log) == \E i \in 1..Len(log) : log[i].call \in StoreCalls

\* A set or update call on a writable with localStorage enabled has just
\* returned, and the value it left validates against the schema.
WriteReturned ==
    /\ last.op \in {"set", "update"}
    /\ ~W.disableLocalStorage
    /\ Conforms(W.schema, W.value)

StoreMirrorsCurrent ==
    /\ localStorage[W.key] # Null
    /\ Restored(localStorage[W.key], W.schema) = Valid(W.value)
    /\ last.op = "set" => W.value = last.arg

C2_ClearResetsValue ==
    (last.op = "clear" /\ ~W.disableLocalStorage)
        => (W.value = W.initialValue /\ localStorage[W.key] = Null)

\* C3 as stated: a writable constructed with localStorage disabled makes no
\* getItem, setItem or removeItem call, in its construction or in set, update
\* or clear.
C3_DisabledNeverCallsStore ==
    (\/ last.op = "storedWritable" /\ last.disableLocalStorage
     \/ last.op \in {"set", "update", "clear"} /\ W.disableLocalStorage)
        => ~CallsStore(last.log)

\* The item is a text that JSON.parse accepts and the schema rejects.
DecodesToInvalid(item, schema) ==
    /\ item.t = "string"
    /\ JSONparse(item.s).ok
    /\ ~SchemaParse(schema, JSONparse(item.s).v).ok

\* C4: with localStorage enabled, constructing against a key whose entry
\* decodes to data that does not match the schema throws a ZodError, and no
\* writable is returned (the context holds what it held).
C4_InvalidEntryFailsConstruction ==
    [][(/\ last'.op = "storedWritable"
        /\ ~last'.disableLocalStorage
        /\ DecodesToInvalid(localStorage[last'.key], last'.schema))
          => (last'.outcome = "ZodError" /\ cell' = cell)]_vars

C4_Witness ==
    /\ last.op = "storedWritable"
    /\ last.outcome = "ZodError"
    /\ DecodesToInvalid(localStorage[last.key], last.schema)

\* A construction with localStorage enabled follows, in the same context and
\* with the same key and schema, a set or update that left a value which
\* validates against the schema.
RestoreAfterWrite ==
    /\ last.op \in {"set", "update"}
    /\ ~W.disableLocalStorage
    /\ Conforms(W.schema, W.value)
    /\ last'.op = "storedWritable"
    /\ last'.ctx = last.ctx
    /\ last'.key = W.key
    /\ last'.schema = W.schema
    /\ ~last'.disableLocalStorage

Restores ==
    /\ last'.outcome = "returned"
    /\ cell'[last'.ctx].value = W.value

\* C5 as stated: after set(v) or update(f) with a schema-conforming result,
\* constructing a writable with the same key and schema, and any
\* initialValue, succeeds, and its value is the one the first writable held
\* when the write returned.
C5_RestoresEveryValue == [][RestoreAfterWrite => Restores]_vars

\* C5, amended: the same, for schema-conforming values that have a JSON text
\* (after set(undefined) the construction throws a SyntaxError).
C5_RestoresJSONValue ==
    [][(RestoreAfterWrite /\ JSONRepresentable(W.value)) => Restores]_vars

\* A writable restored from an entry only a writable of the object schema
\* writes, with a value that is not the initialValue it was given.
C5_Witness ==
    /\ last.op = "storedWritable"
    /\ last.outcome = "returned"
    /\ ~last.disableLocalStorage
    /\ last.schema = SchemaFooBar
    /\ localStorage[last.key] # Null
    /\ W.value # last.initialValue
    /\ Restored(localStorage[last.key], last.schema) = Valid(W.value)

\* The storage event just dispatched is for the key of the context's
\* writable, which has localStorage enabled.
NotifiedOfOwnKey ==
    /\ last.op = "storage"
    /\ W.made
    /\ ~W.disableLocalStorage
    /\ last.event.key = W.key

\* C6 as stated: when another context sets the entry at the writable's key
\* to a text that decodes and validates, and the storage event is delivered,
\* the writable's value becomes the validated value (so that the writables of
\* two contexts on one key hold equal values once all events are delivered).
C6_ForeignChangePropagates ==
    (/\ NotifiedOfOwnKey
     /\ last.event.newValue # Null
     /\ Restored(last.event.newValue, W.schema).ok)
        => W.value = Restored(last.event.newValue, W.schema).v

\* C7 as stated: when the storage event reports that the entry at the
\* writable's key was removed, the value is reset to initialValue, and the
\* writable writes nothing to the store in response.
C7_ForeignRemovalResets ==
    (NotifiedOfOwnKey /\ last.event.newValue = Null)
        => (W.value = W.initialValue /\ ~CallsStore(last.log))

\* C8: with localStorage enabled, constructing against a key that has no
\* entry returns a writable whose value is initialValue.
C8_NoEntryYieldsInitialValue ==
    [][(/\ last'.op = "storedWritable"
        /\ ~last'.disableLocalStorage
        /\ localStorage[last'.key] = Null)
          => (/\ last'.outcome = "returned"
              /\ cell'[last'.ctx].made
              /\ cell'[last'.ctx].value = last'.initialValue)]_vars

C8_Witness ==
    /\ last.op = "storedWritable"
    /\ ~last.disableLocalStorage
    /\ last.outcome = "returned"
    /\ localStorage[last.key] = Null
    /\ W.value = last.initialValue

\* update(f) runs in this step on the writable U, whose value is p: f(p).
U == cell[last'.ctx]
UpdaterResult == Apply(last'.arg, U.value)
EntryDecodesTo(item, v) == item # Null /\ JSONparse(item.s) = Valid(v)

Validates(w) == SchemaParse(w.schema, w.value).ok

\* C10 as stated: in every reachable state the value of a constructed
\* writable validates against its schema.
C10_ValueAlwaysValidates == \A c \in Contexts : cell[c].made => Validates(cell[c])

\* The value the caller hands to the call that makes this step validates:
\* initialValue for the constructor, v for set(v), f(p) for update(f).
GivenValueValidates(c) ==
    /\ last'.op = "storedWritable" => SchemaParse(last'.schema, last'.initialValue).ok
    /\ last'.op = "set" => SchemaParse(cell[c].schema, last'.arg).ok
    /\ last'.op = "update" => SchemaParse(cell[c].schema, Apply(last'.arg, cell[c].value)).ok

\* C10, amended: the value validates after construction and after every
\* call, as long as the initialValue, the values given to set and the
\* values the updaters return validate; these are stored as given. Stated as
\* what every step keeps: a value that validated (or a writable just
\* constructed), and a given value that validates, leave a value that
\* validates.
C10_ValidValuesStayValid ==
    [][\A c \in Contexts :
          (/\ cell'[c].made
           /\ cell[c].made => Validates(cell[c])
           /\ GivenValueValidates(c))
             => Validates(cell'[c])]_vars

\* A writable restored from an entry its initialValue did not write.
C10_Witness ==
    /\ last.op = "storedWritable"
    /\ last.outcome = "returned"
    /\ localStorage[last.key] # Null
    /\ W.value # last.initialValue
    /\ Validates(W)

\* ------------------------------------------------- callbacks, failing writes
\* This step is a set or update call made from outside the callbacks, on the
\* writable U, and Entered is the value the call gives the writable.
Called == last'.op \in {"set", "update"}
Entered == IF last'.op = "set" THEN last'.arg ELSE Apply(last'.arg, U.value)

\* The log's i-th call is a setItem call; the value the writable held then.
IsWrite(l, i) == l.log[i].call = "setItem"
HeldAt(l, i) == l.held[Cardinality({j \in 1..i : IsWrite(l, j)})]

\* Before the log's i-th call, a setItem call, every subscriber has been
\* notified of the value the writable holds: it is the value they had when
\* the call began, or each of the n subscribers has been called with it.
NotifiedBefore(l, n, began, i) ==
    \/ HeldAt(l, i) = began /\ began.t # "object"
    \/ Cardinality({j \in 1..(i - 1) : l.log[j] = SubscriberCall(HeldAt(l, i))}) >= n

\* The call issued a store write of its own (the last call of its log): no
\* exception left a callback, now or in an earlier call.
OwnWrite ==
    /\ Called
    /\ ~U.disableLocalStorage
    /\ ~queueLeft[last'.ctx]
    /\ ~queueLeft'[last'.ctx]

Undecodable(item) == item.t = "string" /\ ~JSONparse(item.s).ok

\* C12 as stated: with localStorage enabled, constructing against a key
\* whose entry is a text that does not decode (the empty text included)
\* raises an error and returns no writable, instead of falling back to
\* initialValue.
C12_UndecodableEntryFailsConstruction ==
    [][(/\ last'.op = "storedWritable"
        /\ ~last'.disableLocalStorage
        /\ Undecodable(localStorage[last'.key]))
          => (last'.outcome # "returned" /\ cell' = cell)]_vars

\* A setItem call of this set or update call raised.
Raised == Called /\ last'.outcome = QuotaExceededError

\* The item the log's setItem calls before its last call leave at key k.
RECURSIVE ItemBefore(_, _, _)
ItemBefore(l, k, i) ==
    IF i = 0 THEN localStorage[k]
    ELSE IF IsWrite(l, i) THEN Str(l.log[i].value) ELSE ItemBefore(l, k, i - 1)

RetriesFailed ==
    /\ last.op = "storedWritable"
    /\ last.outcome # "returned"
    /\ last'.ctx = last.ctx
    /\ last'.key = last.key
    /\ last'.schema = last.schema
    /\ ~last'.disableLocalStorage

\* C14: construction never modifies the store, whether it returns a
\* writable or throws: the store after the call is the store before it, no
\* setItem or removeItem call is made (initialValue is not stored), and a
\* construction that threw throws the same error when it is repeated.
C14_ConstructionLeavesStore ==
    [][last'.op = "storedWritable" =>
         /\ localStorage' = localStorage
         /\ pending' = pending
         /\ \A i \in 1..Len(last'.log) : last'.log[i].call = "getItem"
         /\ RetriesFailed => (last'.outcome = last.outcome /\ cell' = cell)]_vars

\* A construction threw on an entry that does not decode, and the entry is
\* still there; the key's other construction case, the fall back to
\* initialValue, is in C8_Witness.
C14_Witness ==
    /\ last.op = "storedWritable"
    /\ last.outcome = "SyntaxError"
    /\ localStorage[last.key] = Str(<<"{">>)

\* A set or update call, during which a subscriber's callback called set or
\* update on the same writable, has returned; localStorage is enabled.
ReentrantReturned ==
    /\ last.op \in {"set", "update"}
    /\ last.outcome = "returned"
    /\ last.inner > 0
    /\ ~W.disableLocalStorage

\* Every setItem call of the last call was given the text of the value the
\* writable held at that instant.
WritesEncodeHeld ==
    LET writes == SelectSeq(last.log, LAMBDA e : e.call = "setItem")
    IN /\ Len(writes) = Len(last.held)
       /\ \A i \in 1..Len(writes) : writes[i].value = StoredText(last.held[i])

\* C15 as stated: when a set or update call returns during which a
\* subscriber's callback called set or update on the same writable, the
\* store entry decodes to the writable's final value, and every store write
\* encoded the value the writable held at the instant of the write.
C15_ReentrantStoreDecodesToFinal ==
    ReentrantReturned
        => (EntryDecodesTo(localStorage[W.key], W.value) /\ WritesEncodeHeld)

\* C15, amended: the same, the entry decoding to the final value when that
\* value has a JSON text (a final value of undefined leaves the text
\* "undefined", which does not decode).
C15_ReentrantStoreMirrorsFinal ==
    ReentrantReturned
        => /\ WritesEncodeHeld
           /\ localStorage[W.key] = Str(StoredText(W.value))
           /\ JSONRepresentable(W.value)
                 => EntryDecodesTo(localStorage[W.key], W.value)

\* set(v) returned with a value other than v, which a callback gave, and
\* the entry decodes to it.
C15_Witness ==
    /\ ReentrantReturned
    /\ last.op = "set"
    /\ W.value # last.arg
    /\ EntryDecodesTo(localStorage[W.key], W.value)

\* This step is an operation of a writable: its construction, set, update,
\* clear, or the dispatch of a storage event in the context that holds it.
\* OwnKey is the writable's key.
OfWritable ==
    \/ last'.op \in {"storedWritable", "set", "update", "clear"}
    \/ last'.op = "storage" /\ U.made
OwnKey == IF last'.op = "storedWritable" THEN last'.key ELSE U.key

\* C16: every operation of a writable reads, writes or removes only the
\* entry at its own key: the entries at every other key are unchanged and
\* every store call it makes names its key; and a storage event for another
\* key leaves the writable as it was.
C16_OnlyOwnKeyTouched ==
    [][OfWritable =>
         /\ \A k \in Keys \ {OwnKey} : localStorage'[k] = localStorage[k]
         /\ \A i \in 1..Len(last'.log) :
               last'.log[i].call \in StoreCalls => last'.log[i].key = OwnKey
         /\ (last'.op = "storage" /\ last'.event.key # OwnKey) => cell' = cell]_vars

\* A storage event for the other key was dispatched to the context of a
\* writable that holds a value of its own and has its entry in the store.
C16_Witness ==
    /\ last.op = "storage"
    /\ W.made
    /\ last.event.key = OtherKey
    /\ W.value # W.initialValue
    /\ localStorage[W.key] = Str(StoredText(W.value))
    /\ localStorage[OtherKey] # Null

====
